---- MODULE Spec2Model ----
(***************************************************************************)
(* Ranked retrieval of IN4120-SOEK: SimpleSearchEngine.evaluate            *)
(* (assignment-d), the rankers it drives (BrainDeadRanker, BetterRanker),  *)
(* the index lookups it uses and the PostingsMerger of oblig-1.            *)
(*                                                                         *)
(* Scores are Python floats; they are kept here in fixed point, as         *)
(* integers in units of 1/Scale. Records list their fields in alphabetical *)
(* order.                                                                  *)
(***************************************************************************)
EXTENDS Integers, Sequences, FiniteSets, TLC

\* ------------------------------------------------------------------ bounds
NumDocs == 2
MaxDocLen == 2
MaxQueryLen == 4
MaxHit == 1
MaxUpdates == 2
MaxMultiplicity == 2
MaxDocId == 2
NumCalls == 2
MaxConcurrentQueryLen == 2
MaxComparedQueryLen == 2

\* ------------------------------------------------------------ basic values
None == -1
Scale == 1000

Docs == 0 .. (NumDocs - 1)
DocAlphabetSeq == <<"a", "b">>
DocAlphabet == {"a", "b"}
QueryAlphabet == {"a", "b", "z"}
Thresholds == {<<1, 2>>, <<3, 4>>, <<1, 1>>}
\* options without "match_threshold": options.get gives None, no number
NoThreshold == <<>>
\* 1.5, a number outside (0, 1]
OutOfRange == {<<3, 2>>}
HitCounts == (1 .. MaxHit) \cup {None}

SeqToSet(s) == {s[i] : i \in DOMAIN s}
Occurrences(t, s) == Cardinality({i \in DOMAIN s : s[i] = t})
Max(x, y) == IF x >= y THEN x ELSE y
Min(x, y) == IF x <= y THEN x ELSE y

Posting(document_id, term_frequency) ==
    [document_id |-> document_id, term_frequency |-> term_frequency]

VARIABLES
    corpus,            \* Corpus: document id -> the document's fields
    inverted_index,    \* InvertedIndex: dictionary and posting lists
    ranker,            \* the Ranker instance handed to evaluate
    window,            \* sum of multiplicity * term_frequency since the last reset
    updates,           \* number of direct update calls since the last reset
    pc,                \* position of the evaluate call
    query,             \* terms of the query, in query order
    options,           \* match_threshold and hit_count
    ranker0,           \* the ranker as it was when evaluate was entered
    m, n,              \* evaluate's locals m and n
    counter,           \* evaluate's Counter of scores per document id
    counter_doc_id,    \* evaluate's Counter of term hits per document id
    postings_merged,   \* what is left of the merged candidate stream
    sieve,             \* the Sieve's retained (score, document id) pairs
    offered,           \* every (score, document id) given to Sieve.sift so far
    winners,           \* what is left of sieve.winners()
    delivered,         \* the callback's arguments so far
    raised,            \* the exception the call ended with, or "none"
    served,            \* evaluate calls the ranker has been handed to (2: two or more)
    merger,            \* a PostingsMerger call: its iterators, locals and position
    in_memory_index,   \* an InMemoryInvertedIndex of oblig-1: its fields and its build
    calls              \* evaluate calls running side by side, each with its locals

vars == <<corpus, inverted_index, ranker, window, updates, pc, query, options,
          ranker0, m, n, counter, counter_doc_id, postings_merged, sieve,
          offered, winners, delivered, raised, served, merger,
          in_memory_index, calls>>

\* what the engine's call on its own leaves alone
elsewhere == <<merger, in_memory_index, calls>>

\* ------------------------------------------------------------------ corpus
\* A document: how often each term occurs in its indexed field, and its
\* static_quality_score field (None when the field is missing).
DocumentContents ==
    {tf \in [DocAlphabet -> 0 .. MaxDocLen] : tf["a"] + tf["b"] <= MaxDocLen}

StaticQualityScoreOf(d) == IF d = 0 THEN None ELSE d * (Scale \div 2)

Corpora ==
    {[d \in Docs |-> [static_quality_score |-> StaticQualityScoreOf(d),
                      tf |-> contents[d]]] :
        contents \in [Docs -> DocumentContents]}

CorpusSize == NumDocs

\* ------------------------------------------------------------------- index
RECURSIVE DictionaryAfter(_, _)
DictionaryAfter(c, k) ==
    IF k = 0 THEN <<>>
    ELSE LET prev == DictionaryAfter(c, k - 1)
             d == k - 1
         IN prev \o SelectSeq(DocAlphabetSeq,
                              LAMBDA t : c[d].tf[t] > 0 /\ t \notin SeqToSet(prev))

RECURSIVE PostingListUpTo(_, _, _)
PostingListUpTo(c, t, k) ==
    IF k = 0 THEN <<>>
    ELSE LET d == k - 1
         IN PostingListUpTo(c, t, k - 1) \o
            (IF c[d].tf[t] > 0 THEN <<Posting(d, c[d].tf[t])>> ELSE <<>>)

BuildIndex(c) ==
    LET dict == DictionaryAfter(c, NumDocs)
    IN [dictionary |-> dict,
        posting_lists |-> [i \in DOMAIN dict |-> PostingListUpTo(c, dict[i], NumDocs)]]

get_term_id(term) ==
    LET dict == inverted_index.dictionary
    IN IF \E i \in DOMAIN dict : dict[i] = term
       THEN (CHOOSE i \in DOMAIN dict : dict[i] = term) - 1
       ELSE None

get_postings_iterator(term) ==
    LET term_id == get_term_id(term)
    IN IF term_id = None THEN <<>> ELSE inverted_index.posting_lists[term_id + 1]

get_document_frequency(term) ==
    LET term_id == get_term_id(term)
    IN IF term_id = None THEN 0 ELSE Len(inverted_index.posting_lists[term_id + 1])

\* ----------------------------------------------------------------- rankers
\* round(Scale * log10(size / df)) for the ratios a corpus of up to four
\* documents can give.
Log10Scaled(size, df) ==
    CASE size = df -> 0
      [] size = 2 * df -> 301
      [] size = 3 * df -> 477
      [] size = 4 * df -> 602
      [] 2 * size = 3 * df -> 176
      [] 3 * size = 4 * df -> 125

NewRanker(kind) == [document_id |-> None, kind |-> kind, score |-> 0]

BrainDeadReset(r, document_id) == [r EXCEPT !.score = 0]

BrainDeadUpdateNoFrequency(r, term, multiplicity, posting) ==
    [r EXCEPT !.score = @ + multiplicity * Scale]

BrainDeadUpdate(r, term, multiplicity, posting) ==
    [r EXCEPT !.score = @ + multiplicity * posting.term_frequency * Scale]

BrainDeadEvaluate(r) == r.score

BetterReset(r, document_id) == [r EXCEPT !.score = 0, !.document_id = document_id]

idf(df) == Log10Scaled(CorpusSize, df)

BetterUpdate(r, term, multiplicity, posting) ==
    LET df == get_document_frequency(term)
        idf_score == idf(df)
        tf_idf_score == multiplicity * posting.term_frequency * idf_score
    IN [r EXCEPT !.score = @ + tf_idf_score]

\* corpus[document_id] of a document id that is None is no document: the call fails.
BetterEvaluateRaises(r) == r.document_id = None

BetterEvaluate(r) ==
    LET document == corpus[r.document_id]
        static_quality_score ==
            IF document.static_quality_score = None THEN 0
            ELSE document.static_quality_score
    IN static_quality_score + r.score

RankerReset(r, document_id) ==
    IF r.kind = "BrainDeadRanker" THEN BrainDeadReset(r, document_id)
    ELSE BetterReset(r, document_id)

RankerUpdate(r, term, multiplicity, posting) ==
    IF r.kind = "BrainDeadRanker" THEN BrainDeadUpdate(r, term, multiplicity, posting)
    ELSE BetterUpdate(r, term, multiplicity, posting)

RankerEvaluateRaises(r) == r.kind = "BetterRanker" /\ BetterEvaluateRaises(r)

RankerEvaluate(r) ==
    IF r.kind = "BrainDeadRanker" THEN BrainDeadEvaluate(r) ELSE BetterEvaluate(r)

\* ------------------------------------------------------------------- sieve
\* Sieve(size).sift: keeps the size highest-scoring pairs; which of several
\* lowest pairs goes is not specified.
SieveSift(s, size, score, document_id) ==
    LET added == s \cup {<<score, document_id>>}
    IN IF size = None \/ Cardinality(added) <= size THEN {added}
       ELSE {added \ {v} : v \in {x \in added : \A y \in added : x[1] <= y[1]}}

\* Sieve.winners: the retained pairs by descending score, ties in any order.
SieveWinners(s) ==
    LET k == Cardinality(s)
    IN {w \in [1 .. k -> s] :
          /\ \A i, j \in 1 .. k : i # j => w[i] # w[j]
          /\ \A i, j \in 1 .. k : i < j => w[i][1] >= w[j][1]}

\* ----------------------------------------------------- SimpleSearchEngine
RECURSIVE and_postings(_, _)
and_postings(p1, p2) ==
    IF p1 = <<>> \/ p2 = <<>> THEN <<>>
    ELSE IF Head(p1).document_id = Head(p2).document_id
         THEN <<Head(p1)>> \o and_postings(Tail(p1), Tail(p2))
    ELSE IF Head(p1).document_id < Head(p2).document_id
         THEN and_postings(Tail(p1), p2)
    ELSE and_postings(p1, Tail(p2))

\* or_postings without its equality branch: a document id in both lists is
\* yielded from each of them.
RECURSIVE or_postings_repeating(_, _)
or_postings_repeating(p1, p2) ==
    IF p1 = <<>> THEN p2
    ELSE IF p2 = <<>> THEN p1
    ELSE IF Head(p1).document_id < Head(p2).document_id
         THEN <<Head(p1)>> \o or_postings_repeating(Tail(p1), p2)
    ELSE <<Head(p2)>> \o or_postings_repeating(p1, Tail(p2))

RECURSIVE or_postings(_, _)
or_postings(p1, p2) ==
    IF p1 = <<>> THEN p2
    ELSE IF p2 = <<>> THEN p1
    ELSE IF Head(p1).document_id = Head(p2).document_id
         THEN <<Head(p1)>> \o or_postings(Tail(p1), Tail(p2))
    ELSE IF Head(p1).document_id < Head(p2).document_id
         THEN <<Head(p1)>> \o or_postings(Tail(p1), p2)
    ELSE <<Head(p2)>> \o or_postings(p1, Tail(p2))

\* n = max(1, min(m, int(threshhold * m)))
MatchCount(threshhold, mm) ==
    Max(1, Min(mm, (threshhold[1] * mm) \div threshhold[2]))

DoneIter(opts) == opts.hit_count = 1 /\ opts.match_threshold = <<1, 2>>

MergePair(nn, mm, postings, sec) ==
    IF nn = mm THEN and_postings(postings, sec) ELSE or_postings(postings, sec)

\* The merges of the term loop: iteration i merges in terms[i + 1]; with
\* done_iter the loop is left in its first iteration, after that merge.
RECURSIVE MergeFrom(_, _, _, _, _)
MergeFrom(terms, nn, mm, merged, i) ==
    IF i > Len(terms) THEN merged
    ELSE MergeFrom(terms, nn, mm,
                   MergePair(nn, mm, merged, get_postings_iterator(terms[i])), i + 1)

MergedPostings(terms, nn, mm, done_iter) ==
    LET first == get_postings_iterator(terms[1])
    IN IF Len(terms) = 1 THEN first
       ELSE IF done_iter
            THEN MergePair(nn, mm, first, get_postings_iterator(terms[2]))
       ELSE MergeFrom(terms, nn, mm, first, 2)

\* A call the engine makes on the ranker, as the ranker receives it.
RankerCall(call, term, multiplicity, document_id) ==
    [call |-> call, document_id |-> document_id, multiplicity |-> multiplicity,
     term |-> term]

\* One pass of "for post in postings": update, evaluate, count, reset.
RankPosting(st, term, post) ==
    IF st.raised # "none" THEN st
    ELSE LET updated == RankerUpdate(st.ranker, term, 1, post)
             update == RankerCall("update", term, 1, post.document_id)
             evaluate == RankerCall("evaluate", "", None, None)
             reset == RankerCall("reset", "", None, post.document_id)
         IN IF RankerEvaluateRaises(updated)
            THEN [st EXCEPT !.ranker = updated, !.raised = "TypeError",
                            !.calls = @ \o <<update, evaluate>>]
            ELSE LET score == RankerEvaluate(updated)
                 IN [calls |-> st.calls \o <<update, evaluate, reset>>,
                     counter |-> [st.counter EXCEPT ![post.document_id] = @ + score],
                     counter_doc_id |-> [st.counter_doc_id EXCEPT ![post.document_id] = @ + 1],
                     raised |-> "none",
                     ranker |-> RankerReset(updated, post.document_id),
                     rankings |-> st.rankings + 1]

RECURSIVE RankPostings(_, _, _)
RankPostings(st, term, postings) ==
    IF postings = <<>> THEN st
    ELSE RankPostings(RankPosting(st, term, Head(postings)), term, Tail(postings))

RECURSIVE RankTerms(_, _, _)
RankTerms(st, terms, i) ==
    IF i > Len(terms) THEN st
    ELSE RankTerms(RankPostings(st, terms[i], get_postings_iterator(terms[i])),
                   terms, i + 1)

EmptyCounter == [d \in Docs |-> 0]

RankAll(r, terms, done_iter) ==
    LET st0 == [calls |-> <<>>, counter |-> EmptyCounter,
                counter_doc_id |-> EmptyCounter, raised |-> "none", ranker |-> r,
                rankings |-> 0]
    IN IF done_iter THEN st0 ELSE RankTerms(st0, terms, 1)

\* The test of the candidate loop: is the posting's document sifted?
Sifts(nn, mm, score, freq) ==
    IF nn = mm THEN score >= nn * Scale ELSE freq >= nn

\* ---------------------------------------------------------- PostingsMerger
NoPosting == [document_id |-> None, term_frequency |-> None]

MergerIdle ==
    [answers |-> <<>>, at |-> "idle", el1 |-> NoPosting, el2 |-> NoPosting,
     in1 |-> <<>>, in2 |-> <<>>, op |-> "none", p1 |-> <<>>, p2 |-> <<>>,
     raised |-> "none"]

\* next(p, None): the posting an iterator yields, and the iterator after it
NextOf(p) == IF p = <<>> THEN NoPosting ELSE Head(p)
After(p) == IF p = <<>> THEN <<>> ELSE Tail(p)

\* Lines 22-24 and 46-48: answers = [], el1 = next(p1, None), el2 = next(p2, None)
MergerEnter(op, p1, p2) ==
    [answers |-> <<>>, at |-> "loop", el1 |-> NextOf(p1), el2 |-> NextOf(p2),
     in1 |-> p1, in2 |-> p2, op |-> op, p1 |-> After(p1), p2 |-> After(p2),
     raised |-> "none"]

BothLeft(mg) == mg.el1 # NoPosting /\ mg.el2 # NoPosting

\* Lines 26-33: one pass of intersection's while loop
IntersectionPassSkewed(mg) ==
    IF mg.el1.document_id = mg.el2.document_id
    THEN [mg EXCEPT !.answers = Append(@, mg.el1),
                    !.el1 = NextOf(mg.p1), !.p1 = After(@),
                    !.el2 = NextOf(mg.p2), !.p2 = After(@)]
    ELSE [mg EXCEPT !.el1 = NextOf(mg.p1), !.p1 = After(@)]

IntersectionPass(mg) ==
    IF mg.el1.document_id = mg.el2.document_id
    THEN [mg EXCEPT !.answers = Append(@, mg.el1),
                    !.el1 = NextOf(mg.p1), !.p1 = After(@),
                    !.el2 = NextOf(mg.p2), !.p2 = After(@)]
    ELSE IF mg.el1.document_id < mg.el2.document_id
         THEN [mg EXCEPT !.el1 = NextOf(mg.p1), !.p1 = After(@)]
    ELSE [mg EXCEPT !.el2 = NextOf(mg.p2), !.p2 = After(@)]

\* Lines 52-54: one test of union's inner while, and its body or, when the
\* test fails, lines 55-56. el1.document_id of an exhausted el1 raises.
UnionInnerPass(mg) ==
    IF mg.el1 = NoPosting
    THEN [mg EXCEPT !.raised = "AttributeError", !.at = "done"]
    ELSE IF mg.el1.document_id < mg.el2.document_id
         THEN [mg EXCEPT !.answers = Append(@, mg.el1),
                         !.el1 = NextOf(mg.p1), !.p1 = After(@)]
    ELSE [mg EXCEPT !.answers = Append(@, mg.el2),
                    !.el2 = NextOf(mg.p2), !.p2 = After(@), !.at = "loop"]

\* Lines 57-59 and 60-62: the two draining loops
UnionDrain1Pass(mg) ==
    IF mg.el1 # NoPosting
    THEN [mg EXCEPT !.answers = Append(@, mg.el1),
                    !.el1 = NextOf(mg.p1), !.p1 = After(@)]
    ELSE [mg EXCEPT !.at = "drain2"]

UnionDrain2Pass(mg) ==
    IF mg.el2 # NoPosting
    THEN [mg EXCEPT !.answers = Append(@, mg.el2),
                    !.el2 = NextOf(mg.p2), !.p2 = After(@)]
    ELSE [mg EXCEPT !.at = "done"]

\* --------------------------------------- InMemoryInvertedIndex (oblig-1)
\* What get_terms yields for the indexed field of a document.
TermSeqs == UNION {[1 .. k -> DocAlphabet] : k \in 0 .. MaxDocLen}
IndexedCorpora == [Docs -> TermSeqs]

\* InMemoryDictionary: term ids are given out in the order the terms come
add_if_absent(dictionary, term) ==
    IF term \in SeqToSet(dictionary) THEN dictionary ELSE Append(dictionary, term)

TermIdIn(dictionary, term) ==
    IF \E i \in DOMAIN dictionary : dictionary[i] = term
    THEN (CHOOSE i \in DOMAIN dictionary : dictionary[i] = term) - 1
    ELSE None

\* Lines 105-106: "for term in terms: self._dictionary.add_if_absent(term)"
RECURSIVE AddTerms(_, _)
AddTerms(dictionary, terms) ==
    IF terms = <<>> THEN dictionary
    ELSE AddTerms(add_if_absent(dictionary, Head(terms)), Tail(terms))

\* What a generator still yields once a for loop has run it to its end.
Exhausted(terms) == SubSeq(terms, Len(terms) + 1, Len(terms))

\* collections.Counter(terms): the count of each term that terms yields
CounterOf(terms) == [t \in DocAlphabet |-> Occurrences(t, terms)]

NoLookup ==
    [frequency |-> None, method |-> "none", postings |-> <<>>, raised |-> "none",
     term |-> ""]

IndexIdle ==
    [at |-> "none", corpus |-> [d \in Docs |-> <<>>], dictionary |-> <<>>, doc |-> 0,
     list_col |-> <<>>, lookup |-> NoLookup, posting_lists |-> <<>>,
     posting_lists_size |-> 0]

\* Lines 72-77: the fields before _build_index runs
IndexNew(c) ==
    [at |-> "build", corpus |-> c, dictionary |-> <<>>, doc |-> 0, list_col |-> <<>>,
     lookup |-> NoLookup, posting_lists |-> <<>>, posting_lists_size |-> 0]

\* Lines 102-107 for one document: the for loop over terms runs the generator
\* to its end, and the Counter is then made of that same generator.
BuildOneDocument(idx) ==
    LET terms == idx.corpus[idx.doc]
    IN [idx EXCEPT !.dictionary = AddTerms(@, terms),
                   !.list_col = Append(@, CounterOf(Exhausted(terms))),
                   !.doc = @ + 1]

\* Lines 163-164
InMemoryGetPostingsIterator(idx, term) ==
    LET term_id == TermIdIn(idx.dictionary, term)
    IN IF term_id = None THEN [postings |-> <<>>, raised |-> "none"]
       ELSE IF term_id + 1 \in DOMAIN idx.posting_lists
            THEN [postings |-> idx.posting_lists[term_id + 1], raised |-> "none"]
       ELSE [postings |-> <<>>, raised |-> "IndexError"]

\* Lines 170-171
InMemoryGetDocumentFrequency(idx, term) ==
    LET term_id == TermIdIn(idx.dictionary, term)
    IN IF term_id = None THEN [frequency |-> 0, raised |-> "none"]
       ELSE IF term_id + 1 \in DOMAIN idx.posting_lists
            THEN [frequency |-> Len(idx.posting_lists[term_id + 1]),
                  raised |-> "none"]
       ELSE [frequency |-> None, raised |-> "IndexError"]

\* --------------------------------------------- calls running side by side
NoCalls == <<>>

Calls == 1 .. NumCalls

\* A call of evaluate that has not begun: none of its locals exists yet.
CallIdle ==
    [at |-> "idle", counter |-> EmptyCounter, counter_doc_id |-> EmptyCounter,
     delivered |-> <<>>, i |-> 0, m |-> 0, n |-> 0, offered |-> <<>>,
     options |-> [hit_count |-> None, match_threshold |-> <<1, 1>>], postings |-> <<>>,
     postings_merged |-> <<>>, query |-> <<>>, raised |-> "none",
     ranker |-> NewRanker("BrainDeadRanker"), ranker0 |-> NewRanker("BrainDeadRanker"),
     sieve |-> {}, winners |-> <<>>]

Running(call) == call.at \notin {"idle", "done"}

\* Lines 38-49: the locals of a call, up to the first postings iterator.
CallEnter(q, opts, r) ==
    LET mm == Cardinality(SeqToSet(q))
        entered == [CallIdle EXCEPT !.query = q, !.options = opts, !.ranker = r,
                                    !.ranker0 = r, !.m = mm]
    IN IF opts.match_threshold = NoThreshold
       THEN [entered EXCEPT !.raised = "TypeError", !.at = "done"]
       ELSE IF q = <<>>
            THEN [entered EXCEPT !.n = MatchCount(opts.match_threshold, mm),
                                 !.raised = "IndexError", !.at = "done"]
       ELSE [entered EXCEPT !.n = MatchCount(opts.match_threshold, mm),
                            !.postings_merged = get_postings_iterator(q[1]),
                            !.at = "term"]

\* Lines 50-60: the head of one pass of "for term in terms", or the loop's end.
CallTermPass(call) ==
    LET terms == call.query
        k == call.i + 1
        merged == IF call.i < Len(terms) - 1
                  THEN MergePair(call.n, call.m, call.postings_merged,
                                 get_postings_iterator(terms[k + 1]))
                  ELSE call.postings_merged
        postings == get_postings_iterator(terms[k])
    IN IF call.i >= Len(terms) THEN [call EXCEPT !.at = "sift"]
       ELSE IF DoneIter(call.options)
            THEN [call EXCEPT !.postings_merged = merged, !.at = "sift"]
       ELSE IF postings = <<>>
            THEN [call EXCEPT !.postings_merged = merged, !.i = @ + 1]
       ELSE [call EXCEPT !.postings_merged = merged, !.postings = postings,
                         !.at = "update"]

\* Line 62, on the ranker instance `r`; the call goes on to line 63.
CallUpdatePass(call, r) ==
    RankerUpdate(r, call.query[call.i + 1], 1, Head(call.postings))

\* Lines 63-65
CallEvaluatePass(call) ==
    LET post == Head(call.postings)
    IN IF RankerEvaluateRaises(call.ranker)
       THEN [call EXCEPT !.raised = "TypeError", !.at = "done"]
       ELSE [call EXCEPT !.counter[post.document_id] = @ + RankerEvaluate(call.ranker),
                         !.counter_doc_id[post.document_id] = @ + 1,
                         !.at = "reset"]

\* Lines 66-67, and the next posting or the next term
CallResetPass(call) ==
    LET post == Head(call.postings)
        rest == Tail(call.postings)
    IN [call EXCEPT !.ranker = RankerReset(@, post.document_id),
                    !.postings = rest,
                    !.i = IF rest = <<>> THEN @ + 1 ELSE @,
                    !.at = IF rest = <<>> THEN "term" ELSE "update"]

\* ------------------------------------ assignment-c's SimpleSearchEngine
\* A call of assignment-c's evaluate that has not begun. `ranked` counts the
\* passes of "for term in terms" that are over; i is the i of line 59.
OlderIdle ==
    [at |-> "idle", counter |-> EmptyCounter, counter_test |-> EmptyCounter,
     delivered |-> <<>>, i |-> 0, m |-> 0, n |-> 0, offered |-> <<>>,
     options |-> [hit_count |-> None, match_threshold |-> <<1, 1>>], postings |-> <<>>,
     postings_merged |-> <<>>, query |-> <<>>, raised |-> "none", ranked |-> 0,
     ranker |-> NewRanker("BrainDeadRanker"), ranker0 |-> NewRanker("BrainDeadRanker"),
     sieve |-> {}, winners |-> <<>>]

\* Lines 39-48: the locals of the call
OlderEnter(q, opts, r) ==
    LET mm == Cardinality(SeqToSet(q))
        entered == [OlderIdle EXCEPT !.query = q, !.options = opts, !.ranker = r,
                                     !.ranker0 = r, !.m = mm]
    IN IF opts.match_threshold = NoThreshold
       THEN [entered EXCEPT !.raised = "TypeError", !.at = "done"]
       ELSE [entered EXCEPT !.n = MatchCount(opts.match_threshold, mm),
                            !.at = "term"]

\* Lines 50-51: the head of one pass of "for term in terms"; after the last
\* pass line 58, where terms[0] of an empty list raises.
OlderTermPass(call) ==
    LET terms == call.query
        postings == get_postings_iterator(terms[call.ranked + 1])
    IN IF call.ranked >= Len(terms)
       THEN IF terms = <<>>
            THEN [call EXCEPT !.raised = "IndexError", !.at = "done"]
            ELSE [call EXCEPT !.postings_merged = get_postings_iterator(terms[1]),
                              !.at = "merge"]
       ELSE IF postings = <<>> THEN [call EXCEPT !.ranked = @ + 1]
       ELSE [call EXCEPT !.postings = postings, !.at = "update"]

\* Line 53
OlderUpdatePass(call) ==
    [call EXCEPT !.ranker = RankerUpdate(@, call.query[call.ranked + 1], 1,
                                         Head(call.postings)),
                 !.at = "evaluate"]

\* Lines 54-56
OlderEvaluatePass(call) ==
    LET post == Head(call.postings)
    IN IF RankerEvaluateRaises(call.ranker)
       THEN [call EXCEPT !.raised = "TypeError", !.at = "done"]
       ELSE [call EXCEPT !.counter[post.document_id] = @ + RankerEvaluate(call.ranker),
                         !.counter_test[post.document_id] = @ + 1,
                         !.at = "reset"]

\* Line 57, and the next posting or the next term
OlderResetPass(call) ==
    LET post == Head(call.postings)
        rest == Tail(call.postings)
    IN [call EXCEPT !.ranker = RankerReset(@, post.document_id),
                    !.postings = rest,
                    !.ranked = IF rest = <<>> THEN @ + 1 ELSE @,
                    !.at = IF rest = <<>> THEN "term" ELSE "update"]

\* Lines 59-65: one pass of "for i in range(len(terms) - 1)", or its end
OlderMergePass(call) ==
    LET terms == call.query
    IN IF call.i >= Len(terms) - 1 THEN [call EXCEPT !.at = "sift"]
       ELSE [call EXCEPT
                !.postings_merged =
                    MergePair(call.n, call.m, @,
                              get_postings_iterator(terms[call.i + 2])),
                !.i = @ + 1]

\* Lines 73-80: is the posting's document sifted? "el.document_id in counter"
\* holds when line 55 has added to the document's count, as often as line 56
\* has counted it.
OlderSifts(nn, mm, score, freq) ==
    /\ freq > 0
    /\ IF nn = mm THEN score >= nn * Scale
       ELSE score >= nn * Scale /\ freq >= nn

\* -------------------------------------------------------------------- Init
IdleLocals ==
    /\ query = <<>>
    /\ options = [hit_count |-> None, match_threshold |-> <<1, 1>>]
    /\ m = 0
    /\ n = 0
    /\ counter = EmptyCounter
    /\ counter_doc_id = EmptyCounter
    /\ postings_merged = <<>>
    /\ sieve = {}
    /\ offered = <<>>
    /\ winners = <<>>
    /\ delivered = <<>>
    /\ raised = "none"

EngineIdle ==
    /\ inverted_index = BuildIndex(corpus)
    /\ ranker = NewRanker("BrainDeadRanker")
    /\ ranker0 = NewRanker("BrainDeadRanker")
    /\ window = 0
    /\ updates = 0
    /\ served = 0
    /\ pc = "idle"
    /\ IdleLocals

Init ==
    /\ corpus \in Corpora
    /\ EngineIdle
    /\ merger = MergerIdle
    /\ in_memory_index = IndexIdle
    /\ calls = NoCalls

\* ------------------------------------------------------- the ranker, directly
\* A caller constructs a ranker and may drive it itself before handing it on.
Construct(kind) ==
    /\ pc = "idle"
    /\ ranker' = NewRanker(kind)
    /\ window' = 0
    /\ updates' = 0
    /\ served' = 0
    /\ UNCHANGED <<elsewhere, corpus, inverted_index, pc, query, options, ranker0, m, n,
                   counter, counter_doc_id, postings_merged, sieve, offered,
                   winners, delivered, raised>>

DirectReset(document_id) ==
    /\ pc = "idle"
    /\ ranker' = RankerReset(ranker, document_id)
    /\ window' = 0
    /\ updates' = 0
    /\ UNCHANGED <<elsewhere, served, corpus, inverted_index, pc, query, options, ranker0, m, n,
                   counter, counter_doc_id, postings_merged, sieve, offered,
                   winners, delivered, raised>>

DirectUpdate(term, multiplicity, posting) ==
    /\ pc = "idle"
    /\ updates < MaxUpdates
    /\ ranker' = RankerUpdate(ranker, term, multiplicity, posting)
    /\ window' = window + multiplicity * posting.term_frequency * Scale
    /\ updates' = updates + 1
    /\ UNCHANGED <<elsewhere, served, corpus, inverted_index, pc, query, options, ranker0, m, n,
                   counter, counter_doc_id, postings_merged, sieve, offered,
                   winners, delivered, raised>>

\* ------------------------------------------------------------------ evaluate
Queries == UNION {[1 .. k -> QueryAlphabet] : k \in 0 .. MaxQueryLen}
OptionSets ==
    [hit_count : HitCounts,
     match_threshold : Thresholds \cup OutOfRange \cup {NoThreshold}]

\* Lines 38-67: the locals, the merge and the ranking loop. The ranker handed
\* in is a fresh one or one that was last reset, by the caller or by an
\* earlier evaluate call.
Evaluate(q, opts) ==
    /\ pc = "idle"
    /\ updates = 0
    /\ ranker.score = 0
    /\ query' = q
    /\ options' = opts
    /\ ranker0' = ranker
    /\ served' = Min(served + 1, 2)
    /\ LET terms == q
           mm == Cardinality(SeqToSet(terms))
           nn == MatchCount(opts.match_threshold, mm)
           done_iter == DoneIter(opts)
       IN /\ m' = mm
          /\ n' = IF opts.match_threshold = NoThreshold THEN 0 ELSE nn
          /\ IF opts.match_threshold = NoThreshold
             THEN \* line 46: None * m
                  /\ raised' = "TypeError"
                  /\ pc' = "done"
                  /\ UNCHANGED <<ranker, window, counter, counter_doc_id,
                                 postings_merged>>
             ELSE IF terms = <<>>
             THEN \* terms[0] of an empty list
                  /\ raised' = "IndexError"
                  /\ pc' = "done"
                  /\ UNCHANGED <<ranker, window, counter, counter_doc_id,
                                 postings_merged>>
             ELSE \E st \in {RankAll(ranker, terms, done_iter)} :
                     /\ ranker' = st.ranker
                     /\ window' = IF st.rankings > 0 THEN 0 ELSE window
                     /\ counter' = st.counter
                     /\ counter_doc_id' = st.counter_doc_id
                     /\ raised' = st.raised
                     /\ IF st.raised # "none"
                        THEN pc' = "done" /\ postings_merged' = <<>>
                        ELSE /\ pc' = "sift"
                             /\ postings_merged' =
                                    MergedPostings(terms, nn, mm, done_iter)
    /\ UNCHANGED <<elsewhere, corpus, inverted_index, updates, sieve, offered, winners,
                   delivered>>

SiftStepEager ==
    /\ pc = "sift"
    /\ postings_merged # <<>>
    /\ LET post == Head(postings_merged)
           score == counter[post.document_id]
           freq == counter_doc_id[post.document_id]
       IN IF Sifts(n, m, score, freq)
          THEN /\ sieve' \in SieveSift(sieve, options.hit_count, score, post.document_id)
               /\ offered' = Append(offered, <<score, post.document_id>>)
               /\ delivered' = Append(delivered, [document |-> post.document_id,
                                                  score |-> score])
          ELSE UNCHANGED <<sieve, offered, delivered>>
    /\ postings_merged' = Tail(postings_merged)
    /\ UNCHANGED <<elsewhere, served, corpus, inverted_index, ranker, window, updates, pc,
                   query, options, ranker0, m, n, counter, counter_doc_id,
                   winners, raised>>

\* Lines 69-76: one pass of the candidate loop.
SiftStep ==
    /\ pc = "sift"
    /\ postings_merged # <<>>
    /\ LET post == Head(postings_merged)
           score == counter[post.document_id]
           freq == counter_doc_id[post.document_id]
       IN IF Sifts(n, m, score, freq)
          THEN /\ sieve' \in SieveSift(sieve, options.hit_count, score, post.document_id)
               /\ offered' = Append(offered, <<score, post.document_id>>)
          ELSE UNCHANGED <<sieve, offered>>
    /\ postings_merged' = Tail(postings_merged)
    /\ UNCHANGED <<elsewhere, served, corpus, inverted_index, ranker, window, updates, pc, query,
                   options, ranker0, m, n, counter, counter_doc_id, winners,
                   delivered, raised>>

\* Line 78: sieve.winners(), once the candidate loop has ended.
DrainWinners ==
    /\ pc = "sift"
    /\ postings_merged = <<>>
    /\ \E w \in SieveWinners(sieve) :
          /\ winners' = w
          /\ pc' = IF w = <<>> THEN "done" ELSE "deliver"
    /\ UNCHANGED <<elsewhere, served, corpus, inverted_index, ranker, window, updates, query,
                   options, ranker0, m, n, counter, counter_doc_id,
                   postings_merged, sieve, offered, delivered, raised>>

\* Lines 79-80: one callback.
Callback ==
    /\ pc = "deliver"
    /\ winners # <<>>
    /\ LET win == Head(winners)
       IN delivered' = Append(delivered, [document |-> win[2], score |-> win[1]])
    /\ winners' = Tail(winners)
    /\ pc' = IF Tail(winners) = <<>> THEN "done" ELSE "deliver"
    /\ UNCHANGED <<elsewhere, served, corpus, inverted_index, ranker, window, updates, query,
                   options, ranker0, m, n, counter, counter_doc_id,
                   postings_merged, sieve, offered, raised>>

\* The call is over; its locals are gone, the ranker lives on with the caller.
Return ==
    /\ pc = "done"
    /\ pc' = "idle"
    /\ query' = <<>>
    /\ options' = [hit_count |-> None, match_threshold |-> <<1, 1>>]
    /\ m' = 0
    /\ n' = 0
    /\ counter' = EmptyCounter
    /\ counter_doc_id' = EmptyCounter
    /\ postings_merged' = <<>>
    /\ sieve' = {}
    /\ offered' = <<>>
    /\ winners' = <<>>
    /\ delivered' = <<>>
    /\ raised' = "none"
    /\ UNCHANGED <<elsewhere, served, corpus, inverted_index, ranker, ranker0, window, updates>>

Next ==
    \/ \E kind \in {"BrainDeadRanker", "BetterRanker"} : Construct(kind)
    \/ \E d \in Docs : DirectReset(d)
    \/ \E t \in SeqToSet(inverted_index.dictionary), k \in 1 .. MaxMultiplicity :
          \E i \in 1 .. get_document_frequency(t) :
             DirectUpdate(t, k, get_postings_iterator(t)[i])
    \/ \E q \in Queries, opts \in OptionSets : Evaluate(q, opts)
    \/ SiftStep
    \/ DrainWinners
    \/ Callback
    \/ Return

Spec == Init /\ [][Next]_vars

\* ------------------------------------------------- PostingsMerger on its own
engineVars == <<corpus, inverted_index, ranker, window, updates, pc, query,
                options, ranker0, m, n, counter, counter_doc_id,
                postings_merged, sieve, offered, winners, delivered, raised,
                served>>

RECURSIVE AscendingPostings(_, _, _)
\* the postings of the document ids of `ids` from `from` on, in ascending order
AscendingPostings(ids, from, tf) ==
    IF from > MaxDocId THEN <<>>
    ELSE (IF from \in ids THEN <<Posting(from, tf)>> ELSE <<>>)
         \o AscendingPostings(ids, from + 1, tf)

PostingLists(tf) == {AscendingPostings(ids, 0, tf) : ids \in SUBSET (0 .. MaxDocId)}

MergerCall(op) ==
    /\ merger.at = "idle"
    /\ \E p1 \in PostingLists(1), p2 \in PostingLists(2) :
          merger' = MergerEnter(op, p1, p2)
    /\ UNCHANGED <<engineVars, in_memory_index, calls>>

IntersectionStep ==
    /\ merger.at = "loop"
    /\ merger.op = "intersection"
    /\ BothLeft(merger)
    /\ merger' = IntersectionPass(merger)
    /\ UNCHANGED <<engineVars, in_memory_index, calls>>

\* Line 34: return iter(answers), once the while's test fails
IntersectionReturn ==
    /\ merger.at = "loop"
    /\ merger.op = "intersection"
    /\ ~BothLeft(merger)
    /\ merger' = [merger EXCEPT !.at = "done"]
    /\ UNCHANGED <<engineVars, in_memory_index, calls>>

\* Line 51: the outer while's test
UnionOuter ==
    /\ merger.at = "loop"
    /\ merger.op = "union"
    /\ merger' = [merger EXCEPT !.at = IF BothLeft(merger) THEN "inner" ELSE "drain1"]
    /\ UNCHANGED <<engineVars, in_memory_index, calls>>

UnionInner ==
    /\ merger.at = "inner"
    /\ merger' = UnionInnerPass(merger)
    /\ UNCHANGED <<engineVars, in_memory_index, calls>>

UnionDrain1 ==
    /\ merger.at = "drain1"
    /\ merger' = UnionDrain1Pass(merger)
    /\ UNCHANGED <<engineVars, in_memory_index, calls>>

UnionDrain2 ==
    /\ merger.at = "drain2"
    /\ merger' = UnionDrain2Pass(merger)
    /\ UNCHANGED <<engineVars, in_memory_index, calls>>

MergerReturn ==
    /\ merger.at = "done"
    /\ merger' = MergerIdle
    /\ UNCHANGED <<engineVars, in_memory_index, calls>>

InitMerge ==
    /\ corpus = [d \in Docs |-> [static_quality_score |-> StaticQualityScoreOf(d),
                                 tf |-> [t \in DocAlphabet |-> 0]]]
    /\ EngineIdle
    /\ merger = MergerIdle
    /\ in_memory_index = IndexIdle
    /\ calls = NoCalls

NextMerge ==
    \/ \E op \in {"intersection", "union"} : MergerCall(op)
    \/ IntersectionStep
    \/ IntersectionReturn
    \/ UnionOuter
    \/ UnionInner
    \/ UnionDrain1
    \/ UnionDrain2
    \/ MergerReturn

SpecMerge == InitMerge /\ [][NextMerge]_vars


\* ------------------------------------------ InMemoryInvertedIndex on its own
\* Lines 71-78: __init__ up to the call of _build_index
IndexConstruct(c) ==
    /\ in_memory_index.at = "none"
    /\ in_memory_index' = IndexNew(c)
    /\ UNCHANGED <<engineVars, merger, calls>>

\* Lines 102-107: one pass of "for doc in self._corpus"
BuildDocument ==
    /\ in_memory_index.at = "build"
    /\ in_memory_index.doc < NumDocs
    /\ in_memory_index' = BuildOneDocument(in_memory_index)
    /\ UNCHANGED <<engineVars, merger, calls>>

\* _build_index returns: its local list_col is gone
BuildReturn ==
    /\ in_memory_index.at = "build"
    /\ in_memory_index.doc = NumDocs
    /\ in_memory_index' = [in_memory_index EXCEPT !.list_col = <<>>, !.at = "built"]
    /\ UNCHANGED <<engineVars, merger, calls>>

LookupPostings(term) ==
    /\ in_memory_index.at = "built"
    /\ in_memory_index.lookup.method = "none"
    /\ LET it == InMemoryGetPostingsIterator(in_memory_index, term)
       IN in_memory_index' =
              [in_memory_index EXCEPT !.lookup =
                  [frequency |-> None, method |-> "get_postings_iterator",
                   postings |-> it.postings, raised |-> it.raised, term |-> term]]
    /\ UNCHANGED <<engineVars, merger, calls>>

LookupFrequency(term) ==
    /\ in_memory_index.at = "built"
    /\ in_memory_index.lookup.method = "none"
    /\ LET df == InMemoryGetDocumentFrequency(in_memory_index, term)
       IN in_memory_index' =
              [in_memory_index EXCEPT !.lookup =
                  [frequency |-> df.frequency, method |-> "get_document_frequency",
                   postings |-> <<>>, raised |-> df.raised, term |-> term]]
    /\ UNCHANGED <<engineVars, merger, calls>>

LookupReturn ==
    /\ in_memory_index.lookup.method # "none"
    /\ in_memory_index' = [in_memory_index EXCEPT !.lookup = NoLookup]
    /\ UNCHANGED <<engineVars, merger, calls>>

InitIndex == InitMerge

NextIndex ==
    \/ \E c \in IndexedCorpora : IndexConstruct(c)
    \/ BuildDocument
    \/ BuildReturn
    \/ \E term \in QueryAlphabet : LookupPostings(term)
    \/ \E term \in QueryAlphabet : LookupFrequency(term)
    \/ LookupReturn

SpecIndex == InitIndex /\ [][NextIndex]_vars

\* ------------------------------------- evaluate calls running side by side
\* Two callers share the engine, its index and its corpus; each brings its own
\* ranker. Every step is one statement group of one call.
ConcurrentQueries == UNION {[1 .. k -> DocAlphabet] : k \in 1 .. MaxConcurrentQueryLen}
ConcurrentOptions == [hit_count : {None}, match_threshold : {<<3, 4>>, <<1, 1>>}]

\* the call c moves on to `next`; the other calls stay where they are
Proceed(c, next) == calls' = [calls EXCEPT ![c] = next]

CallStart(c, q, opts, r) ==
    /\ calls[c].at = "idle"
    /\ calls' = [calls EXCEPT ![c] = CallEnter(q, opts, r)]
    /\ UNCHANGED <<engineVars, merger, in_memory_index>>

CallTerm(c) ==
    /\ calls[c].at = "term"
    /\ Proceed(c, CallTermPass(calls[c]))
    /\ UNCHANGED <<engineVars, merger, in_memory_index>>

CallUpdateShared(c) ==
    /\ calls[c].at = "update"
    /\ calls' = [calls EXCEPT ![1].ranker = CallUpdatePass(calls[c], calls[1].ranker),
                              ![c].at = "evaluate"]
    /\ UNCHANGED <<engineVars, merger, in_memory_index>>

CallUpdate(c) ==
    /\ calls[c].at = "update"
    /\ calls' = [calls EXCEPT ![c].ranker = CallUpdatePass(calls[c], calls[c].ranker),
                              ![c].at = "evaluate"]
    /\ UNCHANGED <<engineVars, merger, in_memory_index>>

CallEvaluate(c) ==
    /\ calls[c].at = "evaluate"
    /\ Proceed(c, CallEvaluatePass(calls[c]))
    /\ UNCHANGED <<engineVars, merger, in_memory_index>>

CallReset(c) ==
    /\ calls[c].at = "reset"
    /\ Proceed(c, CallResetPass(calls[c]))
    /\ UNCHANGED <<engineVars, merger, in_memory_index>>

\* Lines 69-76: one pass of the candidate loop
CallSift(c) ==
    /\ calls[c].at = "sift"
    /\ calls[c].postings_merged # <<>>
    /\ LET call == calls[c]
           post == Head(call.postings_merged)
           score == call.counter[post.document_id]
           freq == call.counter_doc_id[post.document_id]
           rest == [call EXCEPT !.postings_merged = Tail(@)]
       IN IF Sifts(call.n, call.m, score, freq)
          THEN \E sv \in SieveSift(call.sieve, call.options.hit_count, score,
                                   post.document_id) :
                  Proceed(c, [rest EXCEPT
                                 !.sieve = sv,
                                 !.offered = Append(@, <<score, post.document_id>>)])
          ELSE Proceed(c, rest)
    /\ UNCHANGED <<engineVars, merger, in_memory_index>>

\* Line 78
CallDrain(c) ==
    /\ calls[c].at = "sift"
    /\ calls[c].postings_merged = <<>>
    /\ \E w \in SieveWinners(calls[c].sieve) :
          Proceed(c, [calls[c] EXCEPT !.winners = w,
                                      !.at = IF w = <<>> THEN "done" ELSE "deliver"])
    /\ UNCHANGED <<engineVars, merger, in_memory_index>>

\* Lines 79-80: one callback
CallCallback(c) ==
    /\ calls[c].at = "deliver"
    /\ LET call == calls[c]
           win == Head(call.winners)
       IN Proceed(c, [call EXCEPT
                         !.delivered = Append(@, [document |-> win[2], score |-> win[1]]),
                         !.winners = Tail(@),
                         !.at = IF Tail(call.winners) = <<>> THEN "done"
                                ELSE "deliver"])
    /\ UNCHANGED <<engineVars, merger, in_memory_index>>

CallReturn(c) ==
    /\ calls[c].at = "done"
    /\ calls' = [calls EXCEPT ![c] = CallIdle]
    /\ UNCHANGED <<engineVars, merger, in_memory_index>>

InitConcurrent ==
    /\ corpus \in Corpora
    /\ EngineIdle
    /\ merger = MergerIdle
    /\ in_memory_index = IndexIdle
    /\ calls = [c \in Calls |-> CallIdle]

NextConcurrent ==
    \/ \E c \in Calls, q \in ConcurrentQueries, opts \in ConcurrentOptions,
          kind \in {"BrainDeadRanker", "BetterRanker"} :
          CallStart(c, q, opts, NewRanker(kind))
    \/ \E c \in Calls : CallTerm(c)
    \/ \E c \in Calls : CallUpdate(c)
    \/ \E c \in Calls : CallEvaluate(c)
    \/ \E c \in Calls : CallReset(c)
    \/ \E c \in Calls : CallSift(c)
    \/ \E c \in Calls : CallDrain(c)
    \/ \E c \in Calls : CallCallback(c)
    \/ \E c \in Calls : CallReturn(c)

SpecConcurrent == InitConcurrent /\ [][NextConcurrent]_vars

\* ------------------------------------------------------------ SpecVersions
\* One query, one set of options and a ranker in one state are handed to
\* assignment-d's evaluate (calls[1]) and then to assignment-c's (calls[2]),
\* over the same index and corpus.
Newer == 1
Older == 2

ComparedQueries == UNION {[1 .. k -> QueryAlphabet] : k \in 0 .. MaxComparedQueryLen}
ComparedOptions == [hit_count : HitCounts, match_threshold : Thresholds]
ComparedRankers ==
    {NewRanker(kind) : kind \in {"BrainDeadRanker", "BetterRanker"}}
        \cup {RankerReset(NewRanker("BetterRanker"), d) : d \in Docs}

OlderStart ==
    /\ calls[Newer].at = "done"
    /\ calls[Older].at = "idle"
    /\ Proceed(Older, OlderEnter(calls[Newer].query, calls[Newer].options,
                                 calls[Newer].ranker0))
    /\ UNCHANGED <<engineVars, merger, in_memory_index>>

OlderTerm ==
    /\ calls[Older].at = "term"
    /\ Proceed(Older, OlderTermPass(calls[Older]))
    /\ UNCHANGED <<engineVars, merger, in_memory_index>>

OlderUpdate ==
    /\ calls[Older].at = "update"
    /\ Proceed(Older, OlderUpdatePass(calls[Older]))
    /\ UNCHANGED <<engineVars, merger, in_memory_index>>

OlderEvaluate ==
    /\ calls[Older].at = "evaluate"
    /\ Proceed(Older, OlderEvaluatePass(calls[Older]))
    /\ UNCHANGED <<engineVars, merger, in_memory_index>>

OlderReset ==
    /\ calls[Older].at = "reset"
    /\ Proceed(Older, OlderResetPass(calls[Older]))
    /\ UNCHANGED <<engineVars, merger, in_memory_index>>

OlderMerge ==
    /\ calls[Older].at = "merge"
    /\ Proceed(Older, OlderMergePass(calls[Older]))
    /\ UNCHANGED <<engineVars, merger, in_memory_index>>

\* Lines 68-80: one pass of the candidate loop
OlderSift ==
    /\ calls[Older].at = "sift"
    /\ calls[Older].postings_merged # <<>>
    /\ LET call == calls[Older]
           el == Head(call.postings_merged)
           score == call.counter[el.document_id]
           freq == call.counter_test[el.document_id]
           rest == [call EXCEPT !.postings_merged = Tail(@)]
       IN IF OlderSifts(call.n, call.m, score, freq)
          THEN \E sv \in SieveSift(call.sieve, call.options.hit_count, score,
                                   el.document_id) :
                  Proceed(Older, [rest EXCEPT
                                     !.sieve = sv,
                                     !.offered = Append(@, <<score, el.document_id>>)])
          ELSE Proceed(Older, rest)
    /\ UNCHANGED <<engineVars, merger, in_memory_index>>

\* Line 82
OlderDrain ==
    /\ calls[Older].at = "sift"
    /\ calls[Older].postings_merged = <<>>
    /\ \E w \in SieveWinners(calls[Older].sieve) :
          Proceed(Older, [calls[Older] EXCEPT
                             !.winners = w,
                             !.at = IF w = <<>> THEN "done" ELSE "deliver"])
    /\ UNCHANGED <<engineVars, merger, in_memory_index>>

\* Lines 83-84: one callback
OlderCallback ==
    /\ calls[Older].at = "deliver"
    /\ LET call == calls[Older]
           win == Head(call.winners)
       IN Proceed(Older, [call EXCEPT
                             !.delivered = Append(@, [document |-> win[2],
                                                      score |-> win[1]]),
                             !.winners = Tail(@),
                             !.at = IF Tail(call.winners) = <<>> THEN "done"
                                    ELSE "deliver"])
    /\ UNCHANGED <<engineVars, merger, in_memory_index>>

\* Both calls are over; their locals are gone.
BothReturn ==
    /\ calls[Newer].at = "done"
    /\ calls[Older].at = "done"
    /\ calls' = <<CallIdle, OlderIdle>>
    /\ UNCHANGED <<engineVars, merger, in_memory_index>>

InitVersions ==
    /\ corpus \in Corpora
    /\ EngineIdle
    /\ merger = MergerIdle
    /\ in_memory_index = IndexIdle
    /\ calls = <<CallIdle, OlderIdle>>

NextVersions ==
    \/ \E q \in ComparedQueries, opts \in ComparedOptions, r \in ComparedRankers :
          calls[Older].at = "idle" /\ CallStart(Newer, q, opts, r)
    \/ CallTerm(Newer)
    \/ CallUpdate(Newer)
    \/ CallEvaluate(Newer)
    \/ CallReset(Newer)
    \/ CallSift(Newer)
    \/ CallDrain(Newer)
    \/ CallCallback(Newer)
    \/ OlderStart
    \/ OlderTerm
    \/ OlderUpdate
    \/ OlderEvaluate
    \/ OlderReset
    \/ OlderMerge
    \/ OlderSift
    \/ OlderDrain
    \/ OlderCallback
    \/ BothReturn

SpecVersions == InitVersions /\ [][NextVersions]_vars

\* ------------------------------------------------- what the claims speak of
Contains(d, t) == t \in DocAlphabet /\ corpus[d].tf[t] > 0

\* Number of distinct query terms the document contains.
Coverage(d, q) == Cardinality({t \in SeqToSet(q) : Contains(d, t)})

DistinctTerms(q) == Cardinality(SeqToSet(q))

\* N = max(1, min(M, floor(match_threshold * M)))
RequiredTerms(q, threshold) ==
    LET M == DistinctTerms(q)
        f == (threshold[1] * M) \div threshold[2]
    IN Max(1, Min(M, f))

QualifyingDocs(q, threshold) ==
    {d \in Docs : Coverage(d, q) >= RequiredTerms(q, threshold)}

DeliveredDocs == {delivered[i].document : i \in DOMAIN delivered}
OfferedDocs == {offered[i][2] : i \in DOMAIN offered}

Completed == pc = "done" /\ raised = "none"

\* a match_threshold in (0, 1]
ValidThreshold(threshold) ==
    threshold # NoThreshold /\ 0 < threshold[1] /\ threshold[1] <= threshold[2]

\* C1: every document passed to the callback contains at least N of the M
\* distinct query terms, a repeated query term counting once.
C1_Soundness ==
    ValidThreshold(options.match_threshold) =>
        \A i \in DOMAIN delivered :
            Coverage(delivered[i].document, query)
                >= RequiredTerms(query, options.match_threshold)

\* C2: with match_threshold = 1.0 and no bound on the hits, a call that
\* completes delivers exactly the documents that contain every distinct query
\* term, whatever the ranker.
C2_Conjunctive ==
    (/\ Completed
     /\ query # <<>>
     /\ options.match_threshold = <<1, 1>>
     /\ options.hit_count = None)
    => DeliveredDocs = {d \in Docs : \A t \in SeqToSet(query) : Contains(d, t)}

\* C3: when hit_count does not truncate, every document with coverage c >= N
\* is offered to the Sieve and delivered to the callback.
C3_Completeness ==
    LET qualifying == QualifyingDocs(query, options.match_threshold)
    IN (/\ Completed
        /\ query # <<>>
        /\ ValidThreshold(options.match_threshold)
        /\ options.hit_count = None \/ Cardinality(qualifying) <= options.hit_count)
       => qualifying \subseteq OfferedDocs /\ qualifying \subseteq DeliveredDocs

\* C4: with hit_count = K the callback is invoked exactly min(K, Q) times, Q
\* the number of documents with coverage >= N, on K highest-scoring of them.
C4_TopK ==
    LET qualifying == QualifyingDocs(query, options.match_threshold)
    IN (/\ Completed
        /\ query # <<>>
        /\ ValidThreshold(options.match_threshold)
        /\ options.hit_count # None)
       => /\ Len(delivered) = Min(options.hit_count, Cardinality(qualifying))
          /\ DeliveredDocs \subseteq qualifying
          /\ \A i \in DOMAIN delivered :
               \A d \in qualifying \ DeliveredDocs :
                   counter[d] <= delivered[i].score

\* each delivered score is <= the one delivered right before it
C5_NonIncreasing ==
    \A i \in DOMAIN delivered :
        i > 1 => delivered[i].score <= delivered[i - 1].score

\* C5: within one call the callbacks come in non-increasing score order, and
\* every callback comes after the last Sieve.sift of the call.
C5_ResultOrder ==
    /\ []C5_NonIncreasing
    /\ [][(delivered # <<>> /\ pc' # "idle") => offered' = offered]_vars
    /\ [][Len(delivered') > Len(delivered)
            => offered' = offered /\ postings_merged = <<>>]_vars

C5_Witness ==
    /\ pc = "done"
    /\ Len(delivered) = 2
    /\ delivered[1].score > delivered[2].score
    /\ Len(offered) = 2

\* C6: a query of zero terms completes without an error and with no callback.
C6_EmptyQuery ==
    (pc = "done" /\ query = <<>>) => raised = "none" /\ delivered = <<>>

\* ---- C7: the same call on the query without one of its terms
Without(q, t) == SelectSeq(q, LAMBDA x : x # t)

RaisesOn(q, opts, r) ==
    \/ opts.match_threshold = NoThreshold
    \/ q = <<>>
    \/ RankAll(r, q, DoneIter(opts)).raised # "none"

CountersOn(q, opts, r) ==
    LET st == RankAll(r, q, DoneIter(opts))
    IN <<st.counter, st.counter_doc_id>>

RECURSIVE OfferedFrom(_, _, _, _, _)
OfferedFrom(merged, nn, mm, scores, freqs) ==
    IF merged = <<>> THEN <<>>
    ELSE LET d == Head(merged).document_id
             rest == OfferedFrom(Tail(merged), nn, mm, scores, freqs)
         IN IF Sifts(nn, mm, scores[d], freqs[d])
            THEN <<<<scores[d], d>>>> \o rest
            ELSE rest

OfferedOn(q, opts, r) ==
    LET mm == Cardinality(SeqToSet(q))
        nn == MatchCount(opts.match_threshold, mm)
        st == RankAll(r, q, DoneIter(opts))
    IN OfferedFrom(MergedPostings(q, nn, mm, DoneIter(opts)), nn, mm,
                   st.counter, st.counter_doc_id)

OutOfVocabulary(t) == get_document_frequency(t) = 0

\* C7: a query term without postings changes nothing: scores and coverage
\* counts are those of the query without it and, when N is the same for both
\* queries, so are the (score, document) pairs that reach the Sieve.
C7_UnknownTerm ==
    (Completed /\ ValidThreshold(options.match_threshold)) =>
      \A t \in SeqToSet(query) :
        LET rest == Without(query, t)
        IN (OutOfVocabulary(t) /\ ~RaisesOn(rest, options, ranker0))
           => /\ <<counter, counter_doc_id>> = CountersOn(rest, options, ranker0)
              /\ (/\ pc = "done"
                  /\ RequiredTerms(query, options.match_threshold)
                       = RequiredTerms(rest, options.match_threshold))
                 => offered = OfferedOn(rest, options, ranker0)

\* ---- C8
RECURSIVE RawFrequencySum(_, _, _)
RawFrequencySum(d, q, i) ==
    IF i > Len(DocAlphabetSeq) THEN 0
    ELSE LET t == DocAlphabetSeq[i]
         IN Occurrences(t, q) * corpus[d].tf[t] + RawFrequencySum(d, q, i + 1)

Ids(postings) == {postings[i].document_id : i \in DOMAIN postings}

StrictlyAscending(postings) ==
    \A i \in DOMAIN postings :
        i > 1 => postings[i - 1].document_id < postings[i].document_id

Ascending(postings) ==
    \A i \in DOMAIN postings :
        i > 1 => postings[i - 1].document_id <= postings[i].document_id

C9_IntersectionResult ==
    (merger.at = "done" /\ merger.op = "intersection")
    => /\ merger.raised = "none"
       /\ Ids(merger.answers) = Ids(merger.in1) \cap Ids(merger.in2)
       /\ StrictlyAscending(merger.answers)
       /\ Len(merger.answers) <= Min(Len(merger.in1), Len(merger.in2))

\* C9: intersection of strictly ascending inputs yields exactly the document
\* ids in both, each once, strictly ascending, at most min(len(p1), len(p2))
\* of them; once either input is exhausted it reads and emits nothing more.
C9_Intersection ==
    /\ []C9_IntersectionResult
    /\ [][(merger.op = "intersection" /\ merger.at = "loop" /\ ~BothLeft(merger))
            => (merger' = [merger EXCEPT !.at = "done"])]_vars

C9_Witness ==
    /\ merger.at = "done"
    /\ merger.op = "intersection"
    /\ Len(merger.answers) = 1
    /\ Len(merger.in1) = 2
    /\ Len(merger.in2) = 2
    /\ merger.el1 = NoPosting
    /\ merger.el2 # NoPosting

\* C10: union of strictly ascending inputs yields every document id of either
\* input and no other, ascending, and an id present in both inputs once.
C10_Union ==
    (merger.at = "done" /\ merger.op = "union" /\ merger.raised = "none")
    => /\ Ids(merger.answers) = Ids(merger.in1) \cup Ids(merger.in2)
       /\ Ascending(merger.answers)
       /\ \A d \in Ids(merger.in1) \cap Ids(merger.in2) :
             Cardinality({i \in DOMAIN merger.answers :
                             merger.answers[i].document_id = d}) = 1

\* ---- C11, C12: a whole PostingsMerger call, from its entry to its return
MergerStep(mg) ==
    CASE mg.at = "loop" /\ mg.op = "intersection" ->
             IF BothLeft(mg) THEN IntersectionPass(mg) ELSE [mg EXCEPT !.at = "done"]
      [] mg.at = "loop" /\ mg.op = "union" ->
             [mg EXCEPT !.at = IF BothLeft(mg) THEN "inner" ELSE "drain1"]
      [] mg.at = "inner" -> UnionInnerPass(mg)
      [] mg.at = "drain1" -> UnionDrain1Pass(mg)
      [] mg.at = "drain2" -> UnionDrain2Pass(mg)
      [] OTHER -> mg

RECURSIVE MergerRunFrom(_)
MergerRunFrom(mg) == IF mg.at = "done" THEN mg ELSE MergerRunFrom(MergerStep(mg))

MergerRun(op, p1, p2) == MergerRunFrom(MergerEnter(op, p1, p2))

\* C11: intersection(A, B) and intersection(B, A) return the same set of
\* document ids, so do union(A, B) and union(B, A), and each of the four
\* returns its postings in ascending document-id order.
C11_Commutative ==
    merger.at = "done" =>
        LET swapped == MergerRun(merger.op, merger.in2, merger.in1)
        IN /\ merger.raised = "none"
           /\ swapped.raised = "none"
           /\ Ids(merger.answers) = Ids(swapped.answers)
           /\ Ascending(merger.answers)
           /\ Ascending(swapped.answers)

\* C12: union(A, B) returns a sequence of at least max(len(A), len(B)) and at
\* most len(A) + len(B) postings.
C12_UnionLength ==
    (merger.at = "done" /\ merger.op = "union")
    => /\ merger.raised = "none"
       /\ Len(merger.answers) >= Max(Len(merger.in1), Len(merger.in2))
       /\ Len(merger.answers) <= Len(merger.in1) + Len(merger.in2)

\* ---- C13, C14, C15: the index InMemoryInvertedIndex has built
Built == in_memory_index.at = "built"

\* C13: once the index is constructed, every term of the dictionary has a
\* posting list with strictly increasing document ids, and the term's document
\* frequency is the length of what get_postings_iterator returns for it.
C13_IndexInvariant ==
    Built =>
      \A term \in SeqToSet(in_memory_index.dictionary) :
        LET it == InMemoryGetPostingsIterator(in_memory_index, term)
            df == InMemoryGetDocumentFrequency(in_memory_index, term)
        IN /\ it.raised = "none"
           /\ df.raised = "none"
           /\ StrictlyAscending(it.postings)
           /\ df.frequency = Len(it.postings)

\* C14: once the index is built, a term that occurs k >= 1 times in document
\* d has, under its term id, a posting list with exactly one posting of d,
\* which is Posting(d, k); a list holds no posting of a document without the
\* term.
C14_BuildContent ==
    Built =>
      \A d \in Docs, t \in DocAlphabet :
        LET k == Occurrences(t, in_memory_index.corpus[d])
            term_id == TermIdIn(in_memory_index.dictionary, t)
            listed == term_id # None
                        /\ term_id + 1 \in DOMAIN in_memory_index.posting_lists
            list == in_memory_index.posting_lists[term_id + 1]
            of_d == {i \in DOMAIN list : list[i].document_id = d}
        IN IF k >= 1
           THEN /\ listed
                /\ Cardinality(of_d) = 1
                /\ \A i \in of_d : list[i] = Posting(d, k)
           ELSE listed => of_d = {}

\* C15: no lookup on a built index raises; a term that was never indexed gets
\* the empty sequence and the frequency 0, a term of the dictionary gets its
\* posting list.
C15_LookupNeverErrors ==
    LET lookup == in_memory_index.lookup
        term_id == TermIdIn(in_memory_index.dictionary, lookup.term)
    IN lookup.method # "none" =>
         /\ lookup.raised = "none"
         /\ (term_id = None /\ lookup.method = "get_postings_iterator")
              => lookup.postings = <<>>
         /\ (term_id = None /\ lookup.method = "get_document_frequency")
              => lookup.frequency = 0
         /\ (term_id # None /\ lookup.method = "get_postings_iterator")
              => /\ term_id + 1 \in DOMAIN in_memory_index.posting_lists
                 /\ lookup.postings = in_memory_index.posting_lists[term_id + 1]

\* C16: a call whose options have no match_threshold, or one outside (0, 1],
\* ends with an error, with nothing offered to the Sieve and no callback; it
\* never goes on to the candidate loop with a clamped N.
C16_ThresholdValidation ==
    (pc # "idle" /\ ~ValidThreshold(options.match_threshold))
    => /\ pc = "done"
       /\ raised # "none"
       /\ offered = <<>>
       /\ delivered = <<>>

\* ---- C17
\* C17: a call with a freshly constructed ranker, and a call with a ranker that
\* an earlier evaluate call has used, ends as the call on the same index,
\* corpus, query and options with a fresh ranker of that kind does: with an
\* error or not, the same (score, document) pairs offered in the same order,
\* and as many callbacks, each on one of these pairs.
C17_Determinism ==
    LET fresh == NewRanker(ranker0.kind)
        alone == OfferedOn(query, options, fresh)
    IN (pc = "done" /\ (ranker0 = fresh \/ served = 2)) =>
         /\ (raised # "none") <=> RaisesOn(query, options, fresh)
         /\ raised = "none" =>
              /\ offered = alone
              /\ \A i \in DOMAIN delivered :
                   <<delivered[i].score, delivered[i].document>> \in SeqToSet(alone)
              /\ Len(delivered) = IF options.hit_count = None THEN Len(alone)
                                  ELSE Min(options.hit_count, Len(alone))

\* ---- C18
\* The calls the ranker receives during the call of evaluate in progress.
RankerCallsNow ==
    IF pc = "idle" \/ query = <<>> \/ options.match_threshold = NoThreshold
    THEN <<>>
    ELSE RankAll(ranker0, query, DoneIter(options)).calls

\* C18: the ranker receives reset(d) before any update for a posting of d, with
\* no other reset in between; each update carries the number of occurrences of
\* its term in the query and is the only update of that term for that
\* document; and the updates of a document are followed by evaluate() before
\* the next reset.
C18_RankerProtocol ==
    LET log == RankerCallsNow
        Updates == {i \in DOMAIN log : log[i].call = "update"}
        NoResetBetween(j, i) ==
            \A k \in (j + 1) .. (i - 1) : log[k].call # "reset"
    IN \A i \in Updates :
         /\ \E j \in 1 .. (i - 1) :
               /\ log[j].call = "reset"
               /\ log[j].document_id = log[i].document_id
               /\ NoResetBetween(j, i)
         /\ log[i].multiplicity = Occurrences(log[i].term, query)
         /\ \A k \in Updates :
               (log[k].term = log[i].term
                  /\ log[k].document_id = log[i].document_id) => k = i
         /\ \E k \in (i + 1) .. Len(log) :
               log[k].call = "evaluate" /\ NoResetBetween(i, k)

\* ---- C19
StaticScore(d) ==
    IF corpus[d].static_quality_score = None THEN 0
    ELSE corpus[d].static_quality_score

RECURSIVE TfIdfSum(_, _, _)
TfIdfSum(d, q, i) ==
    IF i > Len(DocAlphabetSeq) THEN 0
    ELSE LET t == DocAlphabetSeq[i]
             weighted == IF corpus[d].tf[t] = 0 \/ Occurrences(t, q) = 0 THEN 0
                         ELSE Occurrences(t, q) * corpus[d].tf[t]
                                * idf(get_document_frequency(t))
         IN weighted + TfIdfSum(d, q, i + 1)

\* The document the ranker holds when it receives call i of the log.
RECURSIVE CurrentDocument(_, _)
CurrentDocument(log, i) ==
    IF i = 1 THEN ranker0.document_id
    ELSE IF log[i - 1].call = "reset" THEN log[i - 1].document_id
    ELSE CurrentDocument(log, i - 1)

\* C19: with BetterRanker a delivered score is the document's own
\* static_quality_score, once, plus the sum over the distinct query terms in
\* the document of multiplicity * term_frequency * idf; the ranker's evaluate
\* always runs with a current document, the one of the update before it.
C19_TfIdfScore ==
    ranker0.kind = "BetterRanker" =>
      /\ \A i \in DOMAIN delivered :
            delivered[i].score
                = StaticScore(delivered[i].document)
                    + TfIdfSum(delivered[i].document, query, 1)
      /\ LET log == RankerCallsNow
         IN \A i \in DOMAIN log :
              log[i].call = "evaluate" =>
                /\ CurrentDocument(log, i) # None
                /\ CurrentDocument(log, i) = log[i - 1].document_id

\* ---- C20: what a call delivers when it runs alone
RECURSIVE SievesAfter(_, _, _)
SievesAfter(sieves, size, sifted) ==
    IF sifted = <<>> THEN sieves
    ELSE SievesAfter(UNION {SieveSift(sv, size, Head(sifted)[1], Head(sifted)[2]) :
                               sv \in sieves},
                     size, Tail(sifted))

AloneDeliveries(q, opts, r) ==
    LET sieves == SievesAfter({{}}, opts.hit_count, OfferedOn(q, opts, r))
    IN {[i \in DOMAIN w |-> [document |-> w[i][2], score |-> w[i][1]]] :
           w \in UNION {SieveWinners(sv) : sv \in sieves}}

EndsAsAlone(call) ==
    IF RaisesOn(call.query, call.options, call.ranker0)
    THEN call.raised # "none" /\ call.delivered = <<>>
    ELSE /\ call.raised = "none"
         /\ call.offered = OfferedOn(call.query, call.options, call.ranker0)
         /\ call.delivered
              \in AloneDeliveries(call.query, call.options, call.ranker0)

\* C20: of evaluate calls that run interleaved over one index and one corpus,
\* each with a ranker of its own, none changes the index or the corpus, and
\* each ends with a callback sequence it can end with when it runs alone.
C20_Concurrent ==
    /\ [](\A c \in DOMAIN calls : calls[c].at = "done" => EndsAsAlone(calls[c]))
    /\ [][corpus' = corpus /\ inverted_index' = inverted_index]_vars

\* one call has made its first of two callbacks while the other call, on
\* another query, has ranked some postings and is ranking one more
C20_Witness ==
    /\ calls # NoCalls
    /\ calls[1].at = "deliver"
    /\ Len(calls[1].delivered) = 1
    /\ Len(calls[1].winners) = 1
    /\ calls[2].at = "evaluate"
    /\ calls[2].counter_doc_id # EmptyCounter
    /\ calls[1].query # calls[2].query

\* C22: union never fails: for strictly ascending inputs, empty ones and a
\* p1 exhausted before p2 included, it never reads document_id of an
\* exhausted cursor and it returns a sequence.
C22_UnionNeverFails ==
    (merger.op = "union" /\ StrictlyAscending(merger.in1)
                         /\ StrictlyAscending(merger.in2))
    => /\ merger.raised = "none"
       /\ merger.at = "inner" => merger.el1 # NoPosting

\* ---- C23
Distinct(docs) == \A i, j \in DOMAIN docs : i # j => docs[i] # docs[j]

\* C23: the candidate stream evaluate merges with and_postings/or_postings
\* is strictly ascending in document_id, also for a query that repeats a
\* term, so a call offers each document to the Sieve at most once and
\* delivers no document to the callback twice.
C23_NoDuplicates ==
    /\ StrictlyAscending(postings_merged)
    /\ \A i \in DOMAIN offered : i > 1 => offered[i - 1][2] < offered[i][2]
    /\ (offered # <<>> /\ postings_merged # <<>>)
          => offered[Len(offered)][2] < Head(postings_merged).document_id
    /\ Distinct([i \in DOMAIN delivered |-> delivered[i].document])

\* a query that repeats a term has had both documents offered and delivered
C23_Witness ==
    /\ pc = "done"
    /\ Len(query) > DistinctTerms(query)
    /\ DistinctTerms(query) > 1
    /\ n < m
    /\ Len(offered) = 2
    /\ Len(delivered) = 2

\* ---- C21
BothDone ==
    /\ calls # NoCalls
    /\ calls[Newer].at = "done"
    /\ calls[Older].at = "done"
    /\ "counter_test" \in DOMAIN calls[Older]

\* C21: for every index, query, match_threshold in (0, 1], hit_count and
\* ranker, assignment-c's evaluate and assignment-d's evaluate deliver the
\* same sequence of (score, document) callback arguments: what one of them
\* has delivered, the other can deliver on that input, and one fails when the
\* other does.
C21_Equivalent ==
    (BothDone /\ ValidThreshold(calls[Newer].options.match_threshold))
    => /\ calls[Older].raised = calls[Newer].raised
       /\ Len(calls[Older].delivered) = Len(calls[Newer].delivered)
       /\ calls[Newer].raised = "none"
            => calls[Older].delivered
                 \in AloneDeliveries(calls[Newer].query, calls[Newer].options,
                                     calls[Newer].ranker0)

====
